---- MODULE Spec2Model ----
(***************************************************************************)
(* Model of rusoto's S3 pre-signed request builders                        *)
(* (services/s3/src/custom/util.rs) and of the RusotoError conversions     *)
(* (core/src/error.rs).                                                    *)
(*                                                                         *)
(* Rust strings that the code inspects character by character (bucket      *)
(* names, keys, endpoints, hostnames, error messages) are sequences of     *)
(* Unicode code points, so that `chars()`, `find`, slicing and `format!`   *)
(* are computed rather than assumed.  Header and query-parameter names,    *)
(* which the code only passes along, are TLA+ strings.                     *)
(***************************************************************************)
EXTENDS Integers, Sequences, FiniteSets, TLC

VARIABLES
    bucket,         \* &str: the bucket name of the call
    key,            \* &str: the object key of the call
    region,         \* &Region
    style,          \* AddressingStyle (option.addressing_style)
    expires_in,     \* option.expires_in, in seconds
    kind,           \* which of the four request types get_presigned_url is called on
    input,          \* the optional fields of the request value (self)
    pc,             \* position inside get_presigned_url
    resolved,       \* Option<Result<(request_uri, hostname), InvalidDnsNameError>>
    request,        \* Option<SignedRequest>: the local `request`
    params,         \* Option<Params>: the local `params` of the GET and DELETE builders
    result,         \* Option<Result<String, InvalidDnsNameError>> returned to the caller
    trace,          \* the calls get_presigned_url has made so far, in order
    valid,          \* Option<bool>: the value is_valid_dns_name returned
    base_hostname,  \* Option<String>: the value build_path_style_hostname returned
    addressed,      \* Option<..>: the value build_s3_hostname returned, with the validator calls it made
    signer_ret,     \* Option<Result<String, io::Error>>: what generate_presigned_url returned
    err,            \* a lower-level error about to be converted with `?` / From
    converted       \* Option<RusotoError<E>>: the value From::from returned

callVars == <<bucket, key, region, style, expires_in, kind, input>>

builderVars == <<pc, resolved, request, params, result, trace, signer_ret>>

errorVars == <<err, converted>>

vars == <<callVars, builderVars, valid, base_hostname, addressed, errorVars>>

(***************************************************************************)
(* Option and Result                                                       *)
(***************************************************************************)
None == <<>>

Some(x) == <<x>>

Ok(v) == [ok |-> TRUE, val |-> v]

Err(e) == [ok |-> FALSE, err |-> e]

(***************************************************************************)
(* Bounds of the model                                                     *)
(***************************************************************************)
\* bucket names of every length up to MaxShort are enumerated exhaustively
MaxShort == 3

\* custom endpoints of every length up to MaxEndpoint are enumerated exhaustively
MaxEndpoint == 5

\* bucket names of the addressing specification are exhaustive up to HostShort
HostShort == 3

SeqsUpTo(S, n) == UNION {[1..m -> S] : m \in 0..n}

Repeat(c, n) == [i \in 1..n |-> c]

(***************************************************************************)
(* String literals of the source, as code points                           *)
(***************************************************************************)
\* "s3."
S3Dot == <<115, 51, 46>>

\* ".amazonaws.com"
DotAmazonawsCom == <<46, 97, 109, 97, 122, 111, 110, 97, 119, 115, 46, 99, 111, 109>>

\* ".amazonaws.com.cn"
DotAmazonawsComCn == <<46, 97, 109, 97, 122, 111, 110, 97, 119, 115, 46, 99, 111, 109, 46, 99, 110>>

\* "://"
SchemeSep == <<58, 47, 47>>

\* "/"
Slash == <<47>>

\* "."
Dot == <<46>>

\* "Invalid DNS name. bucket: "
InvalidDnsPrefix == <<73, 110, 118, 97, 108, 105, 100, 32, 68, 78, 83, 32, 110, 97, 109,
                      101, 46, 32, 98, 117, 99, 107, 101, 116, 58, 32>>

(***************************************************************************)
(* str::find and the slices of extract_hostname                            *)
(***************************************************************************)
\* s[i..] starts with pat (i is 1-based)
MatchesAt(s, pat, i) ==
    /\ i + Len(pat) - 1 <= Len(s)
    /\ \A j \in 1..Len(pat) : s[i + j - 1] = pat[j]

\* str::find: Some(0-based index of the first match) or None
find(s, pat) ==
    LET hits == {i \in 1..Len(s) : MatchesAt(s, pat, i)}
    IN  IF hits = {} THEN None
        ELSE Some((CHOOSE i \in hits : \A j \in hits : i <= j) - 1)

\* &s[p..]
SliceFrom(s, p) == SubSeq(s, p + 1, Len(s))

\* &s[..p]
SliceTo(s, p) == SubSeq(s, 1, p)

(***************************************************************************)
(* DNS name validator                                                      *)
(***************************************************************************)
is_ascii_lowercase(c) == c >= 97 /\ c <= 122

\* char::is_digit(10)
is_digit(c) == c >= 48 /\ c <= 57

is_valid_dns_name_noLast(bucket_name) ==
    LET n == Len(bucket_name)
    IN  IF n < 3 \/ n > 63 THEN FALSE
        ELSE LET first == bucket_name[1]
                 middle == SubSeq(bucket_name, 2, n)
             IN  /\ (is_ascii_lowercase(first) \/ is_digit(first))
                 /\ \A i \in 1..Len(middle) :
                        \/ is_ascii_lowercase(middle[i])
                        \/ is_digit(middle[i])
                        \/ middle[i] = 45

is_valid_dns_name(bucket_name) ==
    LET n == Len(bucket_name)
    IN  IF n < 3 \/ n > 63 THEN FALSE
        ELSE LET first == bucket_name[1]
                 middle == SubSeq(bucket_name, 2, n - 1)
                 last == bucket_name[n]
             IN  /\ (is_ascii_lowercase(first) \/ is_digit(first))
                 /\ \A i \in 1..Len(middle) :
                        \/ is_ascii_lowercase(middle[i])
                        \/ is_digit(middle[i])
                        \/ middle[i] = 45
                 /\ (is_ascii_lowercase(last) \/ is_digit(last))

(***************************************************************************)
(* Regions and the base hostname                                           *)
(***************************************************************************)
\* Region::name()
name(r) ==
    CASE r.variant = "UsWest2" -> <<117, 115, 45, 119, 101, 115, 116, 45, 50>>
      [] r.variant = "UsEast1" -> <<117, 115, 45, 101, 97, 115, 116, 45, 49>>
      [] r.variant = "CnNorth1" -> <<99, 110, 45, 110, 111, 114, 116, 104, 45, 49>>
      [] r.variant = "CnNorthwest1" ->
            <<99, 110, 45, 110, 111, 114, 116, 104, 119, 101, 115, 116, 45, 49>>
      [] r.variant = "Custom" -> r.name

extract_hostname_keepPath(endpoint) ==
    LET p == find(endpoint, SchemeSep)
    IN  IF p # None THEN SliceFrom(endpoint, p[1] + 3) ELSE endpoint

extract_hostname(endpoint) ==
    LET p == find(endpoint, SchemeSep)
        unschemed == IF p # None THEN SliceFrom(endpoint, p[1] + 3) ELSE endpoint
        q == find(unschemed, Slash)
    IN  IF q # None THEN SliceTo(unschemed, q[1]) ELSE unschemed

build_path_style_hostname(r) ==
    IF r.variant = "Custom" THEN extract_hostname(r.endpoint)
    ELSE IF r.variant \in {"CnNorth1", "CnNorthwest1"}
         THEN S3Dot \o name(r) \o DotAmazonawsComCn
         ELSE S3Dot \o name(r) \o DotAmazonawsCom

(***************************************************************************)
(* Addressing resolver.  Each result carries `validated`, the arguments    *)
(* of the is_valid_dns_name calls made while computing it.                 *)
(***************************************************************************)
\* InvalidDnsNameError::new
InvalidDnsNameError(message) == [type |-> "InvalidDnsNameError", message |-> message]

build_virtual_style_hostname(base, bucket_name) ==
    [res |-> IF is_valid_dns_name(bucket_name)
             THEN Ok(bucket_name \o Dot \o base)
             ELSE Err(InvalidDnsNameError(InvalidDnsPrefix \o bucket_name)),
     validated |-> <<bucket_name>>]

build_s3_hostname_autoFails(st, r, bucket_name) ==
    LET base == build_path_style_hostname(r)
        v == build_virtual_style_hostname(base, bucket_name)
    IN  IF st \in {"Auto", "Virtual"}
        THEN [res |-> IF v.res.ok THEN Ok(<<TRUE, v.res.val>>) ELSE v.res,
              validated |-> v.validated]
        ELSE [res |-> Ok(<<FALSE, base>>), validated |-> <<>>]

build_s3_hostname_virtualFallsBack(st, r, bucket_name) ==
    LET base == build_path_style_hostname(r)
        v == build_virtual_style_hostname(base, bucket_name)
    IN  IF st \in {"Auto", "Virtual"}
        THEN [res |-> IF v.res.ok THEN Ok(<<TRUE, v.res.val>>) ELSE Ok(<<FALSE, base>>),
              validated |-> v.validated]
        ELSE [res |-> Ok(<<FALSE, base>>), validated |-> <<>>]

build_s3_hostname_pathValidates(st, r, bucket_name) ==
    LET base == build_path_style_hostname(r)
        v == build_virtual_style_hostname(base, bucket_name)
    IN  CASE st = "Auto" ->
                [res |-> IF v.res.ok THEN Ok(<<TRUE, v.res.val>>) ELSE Ok(<<FALSE, base>>),
                 validated |-> v.validated]
          [] st = "Virtual" ->
                [res |-> IF v.res.ok THEN Ok(<<TRUE, v.res.val>>) ELSE v.res,
                 validated |-> v.validated]
          [] st = "Path" ->
                [res |-> IF v.res.ok THEN Ok(<<FALSE, base>>) ELSE v.res,
                 validated |-> v.validated]

build_s3_hostname(st, r, bucket_name) ==
    LET base == build_path_style_hostname(r)
        v == build_virtual_style_hostname(base, bucket_name)
    IN  CASE st = "Auto" ->
                [res |-> IF v.res.ok THEN Ok(<<TRUE, v.res.val>>) ELSE Ok(<<FALSE, base>>),
                 validated |-> v.validated]
          [] st = "Virtual" ->
                [res |-> IF v.res.ok THEN Ok(<<TRUE, v.res.val>>) ELSE v.res,
                 validated |-> v.validated]
          [] st = "Path" ->
                [res |-> Ok(<<FALSE, base>>), validated |-> <<>>]

(***************************************************************************)
(* Inputs                                                                  *)
(***************************************************************************)
\* "my-bucket"
MyBucket == <<109, 121, 45, 98, 117, 99, 107, 101, 116>>

\* "My_Bucket"
My_Bucket == <<77, 121, 95, 66, 117, 99, 107, 101, 116>>

\* "https://minio.example.org:9000/"
MinioEndpoint == <<104, 116, 116, 112, 115, 58, 47, 47, 109, 105, 110, 105, 111, 46, 101,
                   120, 97, 109, 112, 108, 101, 46, 111, 114, 103, 58, 57, 48, 48, 48, 47>>

\* "http://localhost:9000/minio/"
LocalEndpoint == <<104, 116, 116, 112, 58, 47, 47, 108, 111, 99, 97, 108, 104, 111, 115,
                   116, 58, 57, 48, 48, 48, 47, 109, 105, 110, 105, 111, 47>>

\* "example.org"
BareEndpoint == <<101, 120, 97, 109, 112, 108, 101, 46, 111, 114, 103>>

\* "photos/cat.png"
PhotoKey == <<112, 104, 111, 116, 111, 115, 47, 99, 97, 116, 46, 112, 110, 103>>

\* '-' '.' '/' '0' '9' ':' 'A' 'Z' '_' '`' 'a' 'z' '{' and U+2764
DnsAlphabet == {45, 46, 47, 48, 57, 58, 65, 90, 95, 96, 97, 122, 123, 10084}

\* lengths around the upper limit of is_valid_dns_name
LongLens == {62, 63, 64, 65}

\* every name up to MaxShort, and long names <first><middle>...<middle><last>
DnsNames ==
    SeqsUpTo(DnsAlphabet, MaxShort)
      \cup {<<f>> \o Repeat(m, n - 2) \o <<l>> :
                <<f, m, l, n>> \in DnsAlphabet \X DnsAlphabet \X DnsAlphabet \X LongLens}

NamedRegions == {[variant |-> v] : v \in {"UsWest2", "UsEast1", "CnNorth1", "CnNorthwest1"}}

\* Region::Custom { name, endpoint }
Custom(endpoint) ==
    [variant |-> "Custom", name |-> <<99, 117, 115, 116, 111, 109>>, endpoint |-> endpoint]

\* 'a' '.' ':' '/'
EndpointAlphabet == {97, 46, 58, 47}

Endpoints ==
    SeqsUpTo(EndpointAlphabet, MaxEndpoint) \cup {MinioEndpoint, LocalEndpoint, BareEndpoint}

AllRegions == NamedRegions \cup {Custom(e) : e \in Endpoints}

HostRegions == NamedRegions \cup {Custom(MinioEndpoint), Custom(BareEndpoint)}

\* '-' '.' '0' 'A' 'a'
HostAlphabet == {45, 46, 48, 65, 97}

HostBuckets ==
    SeqsUpTo(HostAlphabet, HostShort)
      \cup {MyBucket, My_Bucket, Repeat(97, 63), Repeat(97, 64)}

Styles == {"Auto", "Virtual", "Path"}

(***************************************************************************)
(* Variables a specification does not use stay at these values             *)
(***************************************************************************)
NoCall ==
    /\ bucket = <<>> /\ key = <<>> /\ region = [variant |-> "UsEast1"]
    /\ style = "Auto"

NoBuilder ==
    /\ expires_in = 0 /\ kind = "none" /\ input = <<>> /\ pc = "idle"
    /\ resolved = None /\ request = None /\ params = None /\ result = None
    /\ trace = <<>> /\ signer_ret = None

NoPure == valid = None /\ base_hostname = None /\ addressed = None

NoError == err = None /\ converted = None

(***************************************************************************)
(* SpecDns: is_valid_dns_name applied to a bucket name                     *)
(***************************************************************************)
InitDns ==
    /\ bucket \in DnsNames
    /\ key = <<>> /\ region = [variant |-> "UsEast1"] /\ style = "Auto"
    /\ NoBuilder /\ NoPure /\ NoError

Validate ==
    /\ valid = None
    /\ valid' = Some(is_valid_dns_name(bucket))
    /\ UNCHANGED <<callVars, builderVars, base_hostname, addressed, errorVars>>

NextDns == Validate

SpecDns == InitDns /\ [][NextDns]_vars

(***************************************************************************)
(* SpecRegion: build_path_style_hostname applied to a region               *)
(***************************************************************************)
InitRegion ==
    /\ region \in AllRegions
    /\ bucket = <<>> /\ key = <<>> /\ style = "Auto"
    /\ NoBuilder /\ NoPure /\ NoError

BaseHostname ==
    /\ base_hostname = None
    /\ base_hostname' = Some(build_path_style_hostname(region))
    /\ UNCHANGED <<callVars, builderVars, valid, addressed, errorVars>>

NextRegion == BaseHostname

SpecRegion == InitRegion /\ [][NextRegion]_vars

(***************************************************************************)
(* SpecHost: AddressingStyle::build_s3_hostname                            *)
(***************************************************************************)
InitHost ==
    /\ region \in HostRegions
    /\ bucket \in HostBuckets
    /\ style \in Styles
    /\ key = <<>>
    /\ NoBuilder /\ NoPure /\ NoError

Address ==
    /\ addressed = None
    /\ addressed' = Some(build_s3_hostname(style, region, bucket))
    /\ UNCHANGED <<callVars, builderVars, valid, base_hostname, errorVars>>

NextHost == Address

SpecHost == InitHost /\ [][NextHost]_vars

(***************************************************************************)
(* Claims about the validator and the resolver                             *)
(***************************************************************************)
LowerOrDigit == (97..122) \cup (48..57)

Contains(s, sub) ==
    \E i \in 1..(Len(s) + 1) :
        /\ i + Len(sub) - 1 <= Len(s)
        /\ \A j \in 1..Len(sub) : s[i + j - 1] = sub[j]

Least(S) == CHOOSE i \in S : \A j \in S : i <= j

\* C1: is_valid_dns_name returns true exactly for names of 3 to 63 characters
\* whose first and last characters are lowercase ASCII letters or digits and
\* whose inner characters are lowercase ASCII letters, digits or hyphens; names
\* with a leading or trailing hyphen, an uppercase letter, '_', '.', a
\* non-ASCII character, or of length 2 or 64 are rejected, and lowercase
\* alphanumeric names of length 3 and 63 are accepted.
C1_ValidatorRule ==
    valid # None =>
        LET n == Len(bucket)
            wellFormed ==
                /\ n >= 3 /\ n <= 63
                /\ bucket[1] \in LowerOrDigit
                /\ bucket[n] \in LowerOrDigit
                /\ \A i \in 2..(n - 1) : bucket[i] \in LowerOrDigit \cup {45}
        IN  /\ valid[1] = wellFormed
            /\ n \in {2, 64} => valid[1] = FALSE
            /\ (n >= 1 /\ (bucket[1] = 45 \/ bucket[n] = 45)) => valid[1] = FALSE
            /\ (\E i \in 1..n : bucket[i] \in (65..90) \cup {95, 46} \/ bucket[i] > 127)
                    => valid[1] = FALSE
            /\ (n \in {3, 63} /\ \A i \in 1..n : bucket[i] \in LowerOrDigit)
                    => valid[1] = TRUE

C1_Witness ==
    /\ valid = Some(TRUE) /\ Len(bucket) = 63 /\ bucket[2] = 45

\* C7: the base hostname is determined by the region: for a Custom region the
\* endpoint without everything up to and including the first "://" and without
\* everything from the first "/" on; "s3.<name>.amazonaws.com.cn" for
\* cn-north-1 and cn-northwest-1; "s3.<name>.amazonaws.com" for the others.
C7_BaseHostname ==
    base_hostname # None =>
        LET h == base_hostname[1]
        IN  CASE region.variant = "Custom" ->
                    LET e == region.endpoint
                        seps == {i \in 1..(Len(e) - 2) :
                                    e[i] = 58 /\ e[i + 1] = 47 /\ e[i + 2] = 47}
                        rest == IF seps = {} THEN e
                                ELSE [i \in 1..(Len(e) - Least(seps) - 2) |->
                                            e[i + Least(seps) + 2]]
                        slashes == {i \in 1..Len(rest) : rest[i] = 47}
                        host == IF slashes = {} THEN rest
                                ELSE [i \in 1..(Least(slashes) - 1) |-> rest[i]]
                    IN  /\ h = host
                        /\ (seps = {} /\ \A i \in 1..Len(e) : e[i] # 47) => h = e
                        /\ e = MinioEndpoint =>
                                h = <<109, 105, 110, 105, 111, 46, 101, 120, 97, 109, 112,
                                      108, 101, 46, 111, 114, 103, 58, 57, 48, 48, 48>>
              [] region.variant = "CnNorth1" ->
                    h = <<115, 51, 46, 99, 110, 45, 110, 111, 114, 116, 104, 45, 49, 46, 97,
                          109, 97, 122, 111, 110, 97, 119, 115, 46, 99, 111, 109, 46, 99, 110>>
              [] region.variant = "CnNorthwest1" ->
                    h = <<115, 51, 46, 99, 110, 45, 110, 111, 114, 116, 104, 119, 101, 115,
                          116, 45, 49, 46, 97, 109, 97, 122, 111, 110, 97, 119, 115, 46, 99,
                          111, 109, 46, 99, 110>>
              [] region.variant = "UsWest2" ->
                    h = <<115, 51, 46, 117, 115, 45, 119, 101, 115, 116, 45, 50, 46, 97, 109,
                          97, 122, 111, 110, 97, 119, 115, 46, 99, 111, 109>>
              [] region.variant = "UsEast1" ->
                    h = <<115, 51, 46, 117, 115, 45, 101, 97, 115, 116, 45, 49, 46, 97, 109,
                          97, 122, 111, 110, 97, 119, 115, 46, 99, 111, 109>>

C7_Witness ==
    /\ region.variant = "Custom" /\ region.endpoint = MinioEndpoint
    /\ base_hostname # None /\ Len(base_hostname[1]) = 22

\* C2: with style Virtual, build_s3_hostname returns (true, "<bucket>.<base>")
\* when the bucket is a valid DNS name and otherwise an InvalidDnsNameError
\* whose message contains the bucket name; it never returns a path-style result.
C2_VirtualStyle ==
    (addressed # None /\ style = "Virtual") =>
        LET a == addressed[1].res
            base == build_path_style_hostname(region)
        IN  /\ is_valid_dns_name(bucket) => a = Ok(<<TRUE, bucket \o <<46>> \o base>>)
            /\ ~is_valid_dns_name(bucket) =>
                    /\ ~a.ok
                    /\ a.err.type = "InvalidDnsNameError"
                    /\ Contains(a.err.message, bucket)
            /\ a.ok => a.val[1] = TRUE

C2_Witness ==
    /\ addressed # None /\ style = "Virtual" /\ bucket = My_Bucket
    /\ ~addressed[1].res.ok

\* C3: with style Auto, build_s3_hostname never returns an error: it returns
\* (true, "<bucket>.<base>") exactly when the bucket is a valid DNS name and
\* otherwise (false, base), the result style Path gives for the region.
C3_AutoStyle ==
    (addressed # None /\ style = "Auto") =>
        LET a == addressed[1].res
            base == build_path_style_hostname(region)
        IN  /\ a.ok
            /\ is_valid_dns_name(bucket) <=> a.val[1] = TRUE
            /\ is_valid_dns_name(bucket) => a.val = <<TRUE, bucket \o <<46>> \o base>>
            /\ ~is_valid_dns_name(bucket) =>
                    /\ a.val = <<FALSE, base>>
                    /\ a = build_s3_hostname("Path", region, bucket).res
            /\ (region.variant = "UsWest2" /\ bucket = MyBucket) =>
                    a.val = <<TRUE, <<109, 121, 45, 98, 117, 99, 107, 101, 116, 46, 115, 51,
                                      46, 117, 115, 45, 119, 101, 115, 116, 45, 50, 46, 97,
                                      109, 97, 122, 111, 110, 97, 119, 115, 46, 99, 111, 109>> >>
            /\ (region.variant = "UsWest2" /\ bucket = My_Bucket) =>
                    a.val = <<FALSE, <<115, 51, 46, 117, 115, 45, 119, 101, 115, 116, 45, 50,
                                       46, 97, 109, 97, 122, 111, 110, 97, 119, 115, 46, 99,
                                       111, 109>> >>

C3_Witness ==
    /\ addressed # None /\ style = "Auto" /\ bucket = My_Bucket
    /\ region.variant = "UsWest2" /\ addressed[1].res.val[1] = FALSE

\* C4: with style Path, build_s3_hostname returns Ok((false, base_hostname))
\* for every bucket, valid or not, without calling is_valid_dns_name.
C4_PathStyle ==
    (addressed # None /\ style = "Path") =>
        /\ addressed[1].res = Ok(<<FALSE, build_path_style_hostname(region)>>)
        /\ addressed[1].validated = <<>>

C4_Witness ==
    /\ addressed # None /\ style = "Path" /\ ~is_valid_dns_name(bucket)
    /\ addressed[1].res.ok

(***************************************************************************)
(* Pre-signed request builders: the header and parameter lists             *)
(***************************************************************************)
Kinds == {"GetObject", "PutObject", "DeleteObject", "UploadPart"}

\* the <field, header name> list of each add_headers! invocation
HeaderTable(k) ==
    CASE k = "GetObject" ->
            << <<"range", "Range">>,
               <<"if_modified_since", "If-Modified-Since">>,
               <<"if_unmodified_since", "If-Unmodified-Since">>,
               <<"if_match", "If-Match">>,
               <<"if_none_match", "If-None-Match">>,
               <<"sse_customer_algorithm", "x-amz-server-side-encryption-customer-algorithm">>,
               <<"sse_customer_key", "x-amz-server-side-encryption-customer-key">>,
               <<"sse_customer_key_md5", "x-amz-server-side-encryption-customer-key-MD5">> >>
      [] k = "PutObject" ->
            << <<"cache_control", "Cache-Control">>,
               <<"content_disposition", "Content-Disposition">>,
               <<"content_encoding", "Content-Encoding">>,
               <<"content_length", "Content-Length">>,
               <<"content_md5", "Content-MD5">>,
               <<"content_type", "Content-Type">>,
               <<"expires", "Expires">>,
               <<"storage_class", "x-amz-storage-class">>,
               <<"tagging", "x-amz-tagging">>,
               <<"website_redirect_location", "x-amz-website-redirect-location">>,
               <<"acl", "x-amz-acl">>,
               <<"grant_read", "x-amz-grant-read">>,
               <<"grant_read_acp", "x-amz-grant-read-acp">>,
               <<"grant_write_acp", "x-amz-grant-write-acp">>,
               <<"grant_full_control", "x-amz-grant-full-control">>,
               <<"server_side_encryption", "x-amz-server-side-encryption">>,
               <<"ssekms_key_id", "x-amz-server-side-encryption-aws-kms-key-id">>,
               <<"sse_customer_algorithm", "x-amz-server-side-encryption-customer-algorithm">>,
               <<"sse_customer_key", "x-amz-server-side-encryption-customer-key">>,
               <<"sse_customer_key_md5", "x-amz-server-side-encryption-customer-key-MD5">> >>
      [] k = "DeleteObject" ->
            << <<"mfa", "x-amz-mfa">> >>
      [] k = "UploadPart" ->
            << <<"content_length", "Content-Length">>,
               <<"content_md5", "Content-MD5">>,
               <<"sse_customer_algorithm", "x-amz-server-side-encryption-customer-algorithm">>,
               <<"sse_customer_key", "x-amz-server-side-encryption-customer-key">>,
               <<"sse_customer_key_md5", "x-amz-server-side-encryption-customer-key-MD5">>,
               <<"request_payer", "x-amz-request-payer">> >>

\* the <field, parameter name> list of each add_params! invocation
ParamTable(k) ==
    CASE k = "GetObject" ->
            << <<"part_number", "partNumber">>,
               <<"response_content_type", "response-content-type">>,
               <<"response_content_language", "response-content-language">>,
               <<"response_expires", "response-expires">>,
               <<"response_cache_control", "response-cache-control">>,
               <<"response_content_disposition", "response-content-disposition">>,
               <<"response_content_encoding", "response-content-encoding">>,
               <<"version_id", "versionId">> >>
      [] k = "DeleteObject" ->
            << <<"version_id", "versionId">> >>
      [] k \in {"PutObject", "UploadPart"} -> <<>>

\* the HTTP method given to SignedRequest::new
Method(k) ==
    CASE k = "GetObject" -> "GET"
      [] k = "PutObject" -> "PUT"
      [] k = "DeleteObject" -> "DELETE"
      [] k = "UploadPart" -> "PUT"

(***************************************************************************)
(* ToString of the field values: i64 fields are formatted in decimal,      *)
(* String fields are copied                                                *)
(***************************************************************************)
IntFields == {"content_length", "part_number"}

DigitChar(d) ==
    CASE d = 0 -> "0" [] d = 1 -> "1" [] d = 2 -> "2" [] d = 3 -> "3" [] d = 4 -> "4"
      [] d = 5 -> "5" [] d = 6 -> "6" [] d = 7 -> "7" [] d = 8 -> "8" [] d = 9 -> "9"

RECURSIVE NatToString(_)
NatToString(n) ==
    IF n < 10 THEN DigitChar(n) ELSE NatToString(n \div 10) \o DigitChar(n % 10)

to_string(field, v) ==
    IF field \in IntFields
    THEN IF v < 0 THEN "-" \o NatToString(0 - v) ELSE NatToString(v)
    ELSE v

(***************************************************************************)
(* SignedRequest and Params: the headers and parameters are kept as the    *)
(* sequence of <name, value> pairs the builder has passed in               *)
(***************************************************************************)
SignedRequest_new(method, service, r, path) ==
    [method |-> method, service |-> service, region |-> r, path |-> path,
     headers |-> <<>>, params |-> <<>>, hostname |-> None]

add_header(req, k, v) == [req EXCEPT !.headers = Append(@, <<k, v>>)]

add_param(req, k, v) == [req EXCEPT !.params = Append(@, <<k, v>>)]

set_params(req, ps) == [req EXCEPT !.params = ps]

set_hostname(req, h) == [req EXCEPT !.hostname = h]

Params_new == <<>>

put(ps, k, v) == Append(ps, <<k, v>>)

RECURSIVE add_headers_ignoresAbsence(_, _, _)
add_headers_ignoresAbsence(self, req, table) ==
    IF table = <<>> THEN req
    ELSE LET p == table[1][1]
             e == table[1][2]
             req1 == IF self[p] # None
                     THEN add_header(req, e, to_string(p, self[p][1]))
                     ELSE add_header(req, e, "")
         IN  add_headers_ignoresAbsence(self, req1, Tail(table))

\* macro add_headers!
RECURSIVE add_headers(_, _, _)
add_headers(self, req, table) ==
    IF table = <<>> THEN req
    ELSE LET p == table[1][1]
             e == table[1][2]
             req1 == IF self[p] # None
                     THEN add_header(req, e, to_string(p, self[p][1]))
                     ELSE req
         IN  add_headers(self, req1, Tail(table))

\* macro add_params!
RECURSIVE add_params(_, _, _)
add_params(self, ps, table) ==
    IF table = <<>> THEN ps
    ELSE LET p == table[1][1]
             e == table[1][2]
             ps1 == IF self[p] # None
                    THEN put(ps, e, to_string(p, self[p][1]))
                    ELSE ps
         IN  add_params(self, ps1, Tail(table))

\* the `for` loop over self.metadata, visiting the entries in the order `order`
RECURSIVE add_metadata(_, _, _)
add_metadata(metadata, req, order) ==
    IF order = <<>> THEN req
    ELSE add_metadata(metadata,
                      add_header(req, "x-amz-meta-" \o order[1], metadata[order[1]]),
                      Tail(order))

\* the orders in which a HashMap with these keys can be iterated
Orders(keys) ==
    {o \in [1..Cardinality(keys) -> keys] : \A i, j \in DOMAIN o : i # j => o[i] # o[j]}

(***************************************************************************)
(* build_request_uri_and_hostname                                          *)
(***************************************************************************)
build_request_uri_and_hostname_alwaysPath(r, bucket_name, k, option) ==
    LET h == build_s3_hostname(option.addressing_style, r, bucket_name).res
    IN  IF ~h.ok THEN h
        ELSE Ok(<<Slash \o bucket_name \o Slash \o k, h.val[2]>>)

build_request_uri_and_hostname(r, bucket_name, k, option) ==
    LET h == build_s3_hostname(option.addressing_style, r, bucket_name).res
    IN  IF ~h.ok THEN h
        ELSE LET is_virtual == h.val[1]
                 hostname == h.val[2]
                 request_uri == IF is_virtual THEN Slash \o k
                                ELSE Slash \o bucket_name \o Slash \o k
             IN  Ok(<<request_uri, hostname>>)

(***************************************************************************)
(* The signer and the conversion of its error                              *)
(***************************************************************************)
\* "timed out", "broken pipe"
IoErrors ==
    {[kind |-> "TimedOut", message |-> <<116, 105, 109, 101, 100, 32, 111, 117, 116>>],
     [kind |-> "BrokenPipe",
      message |-> <<98, 114, 111, 107, 101, 110, 32, 112, 105, 112, 101>>]}

\* SignedRequest::generate_presigned_url: the results it can return
generate_presigned_url(req, expires) ==
    {Ok([url_of |-> req, expires_in |-> expires])} \cup {Err(e) : e \in IoErrors}

\* impl From<io::Error> for InvalidDnsNameError
From_io_Error_for_InvalidDnsNameError(e) == InvalidDnsNameError(e.message)

(***************************************************************************)
(* Inputs of the builders                                                  *)
(***************************************************************************)
\* at most MaxPresent optional fields are present, or all of them are
MaxPresent == 1

RECURSIVE SmallSubsets(_, _)
SmallSubsets(S, n) ==
    IF n = 0 THEN {{}}
    ELSE LET prev == SmallSubsets(S, n - 1)
         IN  prev \cup {T \cup {x} : T \in prev, x \in S}

TableFields(k) ==
    {HeaderTable(k)[i][1] : i \in DOMAIN HeaderTable(k)}
        \cup {ParamTable(k)[i][1] : i \in DOMAIN ParamTable(k)}

SampleValue(f) ==
    CASE f = "range" -> "bytes=0-99"
      [] f = "content_length" -> 1024
      [] f = "part_number" -> 7
      [] OTHER -> "value"

MetadataChoices(k) ==
    IF k = "PutObject"
    THEN {None, Some(<<>>), Some([n \in {"owner", "Owner"} |-> "me"])}
    ELSE {None}

\* the request values: the optional fields, and the required fields of UploadPart
Inputs(k) ==
    LET fields == TableFields(k)
        required == IF k = "UploadPart" THEN {"part_number", "upload_id"} ELSE {}
        all == fields \cup required \cup (IF k = "PutObject" THEN {"metadata"} ELSE {})
    IN  {[f \in all |->
            IF f \in required THEN (IF f = "part_number" THEN 7 ELSE "upload-1")
            ELSE IF f = "metadata" THEN m
            ELSE IF f \in present THEN Some(SampleValue(f)) ELSE None] :
         present \in SmallSubsets(fields, MaxPresent) \cup {fields},
         m \in MetadataChoices(k)}

BuilderBuckets == {MyBucket, My_Bucket, <<97, 46, 98>>}

BuilderRegions == {[variant |-> "UsWest2"], [variant |-> "CnNorth1"], Custom(MinioEndpoint)}

BuilderKeys == {PhotoKey, <<107>>}

(***************************************************************************)
(* Spec: one call of get_presigned_url, step by step                       *)
(***************************************************************************)
\* the statement that follows statement p in the get_presigned_url of kind k
next_pc_signsBeforeHostname(k, p) ==
    CASE p = "start" -> "new"
      [] p = "new" -> IF k = "UploadPart" THEN "required_params" ELSE "headers"
      [] p = "required_params" -> "headers"
      [] p = "headers" -> IF k \in {"GetObject", "DeleteObject"} THEN "params"
                          ELSE IF k = "PutObject" THEN "metadata" ELSE "sign"
      [] p = "params" -> "set_params"
      [] p = "set_params" -> "sign"
      [] p = "metadata" -> "sign"
      [] p = "sign" -> "hostname"
      [] p = "hostname" -> "done"

next_pc(k, p) ==
    CASE p = "start" -> "new"
      [] p = "new" -> IF k = "UploadPart" THEN "required_params" ELSE "headers"
      [] p = "required_params" -> "headers"
      [] p = "headers" -> IF k \in {"GetObject", "DeleteObject"} THEN "params"
                          ELSE IF k = "PutObject" THEN "metadata" ELSE "hostname"
      [] p = "params" -> "set_params"
      [] p = "set_params" -> "hostname"
      [] p = "metadata" -> "hostname"
      [] p = "hostname" -> "sign"
      [] p = "sign" -> "done"

option == [expires_in |-> expires_in, addressing_style |-> style]

Event(op, arg) == [op |-> op, arg |-> arg]

\* the add_header / add_param / put calls that extended `before` to `after`
Added(op, before, after) ==
    [i \in 1..(Len(after) - Len(before)) |-> Event(op, after[Len(before) + i][1])]

Init ==
    /\ kind \in Kinds
    /\ input \in Inputs(kind)
    /\ bucket \in BuilderBuckets
    /\ key \in BuilderKeys
    /\ region \in BuilderRegions
    /\ style \in Styles
    /\ expires_in \in {3600, 60}
    /\ pc = "start"
    /\ resolved = None /\ request = None /\ params = None /\ result = None
    /\ trace = <<>> /\ signer_ret = None
    /\ NoPure /\ NoError

\* let (request_uri, hostname) = build_request_uri_and_hostname(..)?;
Resolve ==
    /\ pc = "start"
    /\ LET r == build_request_uri_and_hostname(region, bucket, key, option)
       IN  /\ trace' = Append(trace, Event("build_request_uri_and_hostname", bucket))
           /\ IF r.ok
              THEN /\ resolved' = Some(r.val)
                   /\ pc' = next_pc(kind, pc)
                   /\ UNCHANGED result
              ELSE /\ result' = Some(r)
                   /\ pc' = "done"
                   /\ UNCHANGED resolved
    /\ UNCHANGED <<callVars, request, params, signer_ret, valid, base_hostname,
                   addressed, errorVars>>

\* let mut request = SignedRequest::new(..); let mut params = Params::new();
NewRequest ==
    /\ pc = "new"
    /\ request' = Some(SignedRequest_new(Method(kind), "s3", region, resolved[1][1]))
    /\ params' = IF kind \in {"GetObject", "DeleteObject"} THEN Some(Params_new) ELSE None
    /\ trace' = Append(trace, Event("SignedRequest::new", resolved[1][1]))
    /\ pc' = next_pc(kind, pc)
    /\ UNCHANGED <<callVars, resolved, result, signer_ret, valid, base_hostname,
                   addressed, errorVars>>

\* request.add_param("partNumber", ..); request.add_param("uploadId", ..);
AddRequiredParams ==
    /\ pc = "required_params"
    /\ LET r1 == add_param(request[1], "partNumber",
                           to_string("part_number", input["part_number"]))
           r2 == add_param(r1, "uploadId", input["upload_id"])
       IN  /\ request' = Some(r2)
           /\ trace' = trace \o Added("add_param", request[1].params, r2.params)
    /\ pc' = next_pc(kind, pc)
    /\ UNCHANGED <<callVars, resolved, params, result, signer_ret, valid,
                   base_hostname, addressed, errorVars>>

\* add_headers!(self, request; ..);
AddHeaders ==
    /\ pc = "headers"
    /\ LET r == add_headers(input, request[1], HeaderTable(kind))
       IN  /\ request' = Some(r)
           /\ trace' = trace \o Added("add_header", request[1].headers, r.headers)
    /\ pc' = next_pc(kind, pc)
    /\ UNCHANGED <<callVars, resolved, params, result, signer_ret, valid,
                   base_hostname, addressed, errorVars>>

\* add_params!(self, params; ..);
AddParams ==
    /\ pc = "params"
    /\ LET ps == add_params(input, params[1], ParamTable(kind))
       IN  /\ params' = Some(ps)
           /\ trace' = trace \o Added("put", params[1], ps)
    /\ pc' = next_pc(kind, pc)
    /\ UNCHANGED <<callVars, resolved, request, result, signer_ret, valid,
                   base_hostname, addressed, errorVars>>

\* request.set_params(params);
SetParams ==
    /\ pc = "set_params"
    /\ request' = Some(set_params(request[1], params[1]))
    /\ params' = None
    /\ trace' = Append(trace, Event("set_params", params[1]))
    /\ pc' = next_pc(kind, pc)
    /\ UNCHANGED <<callVars, resolved, result, signer_ret, valid, base_hostname,
                   addressed, errorVars>>

\* if let Some(ref metadata) = self.metadata { for .. { request.add_header(..) } }
AddMetadata ==
    /\ pc = "metadata"
    /\ IF input["metadata"] = None
       THEN UNCHANGED <<request, trace>>
       ELSE \E order \in Orders(DOMAIN input["metadata"][1]) :
                LET r == add_metadata(input["metadata"][1], request[1], order)
                IN  /\ request' = Some(r)
                    /\ trace' = trace \o Added("add_header", request[1].headers, r.headers)
    /\ pc' = next_pc(kind, pc)
    /\ UNCHANGED <<callVars, resolved, params, result, signer_ret, valid,
                   base_hostname, addressed, errorVars>>

\* request.set_hostname(Some(hostname));
SetHostname ==
    /\ pc = "hostname"
    /\ request' = Some(set_hostname(request[1], Some(resolved[1][2])))
    /\ trace' = Append(trace, Event("set_hostname", Some(resolved[1][2])))
    /\ pc' = next_pc(kind, pc)
    /\ UNCHANGED <<callVars, resolved, params, result, signer_ret, valid,
                   base_hostname, addressed, errorVars>>

\* Ok(request.generate_presigned_url(credentials, &option.expires_in, false)?)
Sign ==
    /\ pc = "sign"
    /\ \E ret \in generate_presigned_url(request[1], option.expires_in) :
        /\ signer_ret' = Some(ret)
        /\ result' = Some(IF ret.ok THEN Ok(ret.val)
                          ELSE Err(From_io_Error_for_InvalidDnsNameError(ret.err)))
    /\ trace' = Append(trace, Event("generate_presigned_url", option.expires_in))
    /\ pc' = next_pc(kind, pc)
    /\ UNCHANGED <<callVars, resolved, request, params, valid, base_hostname,
                   addressed, errorVars>>

Next ==
    \/ Resolve
    \/ NewRequest
    \/ AddRequiredParams
    \/ AddHeaders
    \/ AddParams
    \/ SetParams
    \/ AddMetadata
    \/ SetHostname
    \/ Sign

Spec == Init /\ [][Next]_vars

(***************************************************************************)
(* Claims about the builders                                               *)
(***************************************************************************)
\* the resolver rejects the bucket: style Virtual with an invalid name
ResolverRejects == style = "Virtual" /\ ~is_valid_dns_name(bucket)

\* every header and parameter of the call has been added to the request
Populated == pc \in {"sign", "done"} /\ request # None

Count(pairs, n) == Cardinality({i \in DOMAIN pairs : pairs[i][1] = n})

RequiredParams == IF kind = "UploadPart" THEN 2 ELSE 0

PresentIn(table) == {i \in DOMAIN table : input[table[i][1]] # None}

\* C5: get_presigned_url returns an InvalidDnsNameError only when the resolver
\* rejected the bucket name; a failure of the signer reaches the caller as the
\* signer's own error, never as an InvalidDnsNameError.
C5_SignerErrorUnchanged ==
    /\ (result # None /\ ~result[1].ok /\ result[1].err.type = "InvalidDnsNameError")
            => ResolverRejects
    /\ (result # None /\ signer_ret # None /\ ~signer_ret[1].ok)
            => result[1] = signer_ret[1]

\* C6: when the resolver succeeds, build_request_uri_and_hostname returns
\* "/<key>" with "<bucket>.<base_hostname>" for virtual style and
\* "/<bucket>/<key>" with base_hostname for path style, so that the bucket is
\* carried by exactly one of the two; each of the four builders gives this URI
\* to the request and sets this hostname on it.
C6_UriAndHostname ==
    resolved # None =>
        LET request_uri == resolved[1][1]
            hostname == resolved[1][2]
            base == build_path_style_hostname(region)
            virtual == style # "Path" /\ is_valid_dns_name(bucket)
            inHost == hostname = bucket \o <<46>> \o base
            inPath == request_uri = <<47>> \o bucket \o <<47>> \o key
        IN  /\ ~ResolverRejects
            /\ virtual => (request_uri = <<47>> \o key /\ inHost)
            /\ ~virtual => (inPath /\ hostname = base)
            /\ inHost # inPath
            /\ request # None => request[1].path = request_uri
            /\ Populated => request[1].hostname = Some(hostname)

C6_Witness ==
    /\ pc = "done" /\ kind = "UploadPart" /\ style = "Auto" /\ bucket = My_Bucket
    /\ request # None /\ request[1].path = <<47>> \o My_Bucket \o <<47>> \o key

\* C9 (as claimed): every optional field of the request value, the metadata of
\* a store request included, yields exactly one header or parameter when it is
\* present and none when it is absent.
C9_EveryOptionalFieldOneName ==
    Populated =>
        LET required == IF kind = "UploadPart" THEN {"part_number", "upload_id"} ELSE {}
            optional == DOMAIN input \ required
        IN  Len(request[1].headers) + Len(request[1].params) - RequiredParams
                = Cardinality({f \in optional : input[f] # None})

\* C9 (amended): every optional field listed in a builder's add_headers! or
\* add_params! invocation yields exactly its one listed header, respectively
\* parameter, when present and nothing when absent, never a name of the other
\* kind; the metadata of a store request yields one "x-amz-meta-<name>" header
\* per entry; nothing else but the two required upload-part parameters is
\* emitted.  A retrieve request with only range present emits the single header
\* Range.
C9_ListedFieldsOneName ==
    Populated =>
        LET headers == request[1].headers
            ps == request[1].params
            ht == HeaderTable(kind)
            pt == ParamTable(kind)
            metadata == IF kind = "PutObject" /\ input["metadata"] # None
                        THEN input["metadata"][1] ELSE <<>>
        IN  /\ \A i \in DOMAIN ht :
                    /\ Count(headers, ht[i][2]) = IF input[ht[i][1]] # None THEN 1 ELSE 0
                    /\ Count(ps, ht[i][2]) = 0
            /\ \A i \in DOMAIN pt :
                    /\ Count(ps, pt[i][2]) = IF input[pt[i][1]] # None THEN 1 ELSE 0
                    /\ Count(headers, pt[i][2]) = 0
            /\ \A n \in DOMAIN metadata : Count(headers, "x-amz-meta-" \o n) = 1
            /\ Len(headers) = Cardinality(PresentIn(ht)) + Cardinality(DOMAIN metadata)
            /\ Len(ps) = Cardinality(PresentIn(pt)) + RequiredParams
            /\ (kind = "GetObject" /\ \A f \in DOMAIN input : input[f] # None <=> f = "range")
                    => (headers = << <<"Range", "bytes=0-99">> >> /\ ps = <<>>)

C9_Witness ==
    /\ pc = "done" /\ request # None /\ kind = "GetObject"
    /\ \A f \in DOMAIN input : input[f] # None <=> f = "range"
    /\ Len(request[1].headers) = 1

\* C10: the resolver runs first; if it fails the call returns its error with
\* no request constructed and the signer never invoked; otherwise the request
\* is created, the headers and parameters are added, the hostname is set to the
\* resolved hostname, and only then the signer is invoked, once, with
\* option.expires_in, after which the request is not used again.
C10_StepOrder ==
    LET n == Len(trace)
        At(ops) == {i \in 1..n : trace[i].op \in ops}
        signs == At({"generate_presigned_url"})
        hosts == At({"set_hostname"})
        fills == At({"add_header", "add_param", "put", "set_params"})
    IN  /\ At({"build_request_uri_and_hostname"}) = (IF n >= 1 THEN {1} ELSE {})
        /\ At({"SignedRequest::new"}) = (IF n >= 2 THEN {2} ELSE {})
        /\ ResolverRejects =>
                /\ n <= 1 /\ request = None /\ signer_ret = None
                /\ pc = "done" => (result # None /\ ~result[1].ok)
        /\ Cardinality(signs) <= 1 /\ Cardinality(hosts) <= 1
        /\ \A i \in fills : \A j \in hosts \cup signs : i < j
        /\ \A j \in signs :
                /\ j = n
                /\ trace[j].arg = expires_in
                /\ \E h \in hosts : h < j /\ trace[h].arg = Some(resolved[1][2])
                /\ request[1].hostname = Some(resolved[1][2])
        /\ \A h \in hosts : \A j \in 1..n : j > h => j \in signs
        /\ (pc = "done" /\ ~ResolverRejects) => Cardinality(signs) = 1
        /\ (pc = "done") <=> (result # None)

C10_Witness ==
    /\ pc = "done" /\ kind = "PutObject" /\ style = "Virtual" /\ bucket = MyBucket
    /\ Len(trace) >= 5 /\ trace[Len(trace)].op = "generate_presigned_url"

(***************************************************************************)
(* SpecError: the conversions into RusotoError<E>                          *)
(***************************************************************************)
Messages ==
    {<<117, 110, 101, 120, 112, 101, 99, 116, 101, 100, 32, 101, 110, 100, 32, 111, 102,
       32, 105, 110, 112, 117, 116>>,
     <<101, 120, 112, 101, 99, 116, 101, 100, 32, 118, 97, 108, 117, 101>>,
     <<110, 111, 32, 99, 114, 101, 100, 101, 110, 116, 105, 97, 108, 115>>,
     <<116, 111, 107, 101, 110, 32, 101, 120, 112, 105, 114, 101, 100>>,
     <<99, 111, 110, 110, 101, 99, 116, 105, 111, 110, 32, 114, 101, 115, 101, 116>>,
     <<>>,
     <<100, 110, 115, 32, 102, 97, 105, 108, 117, 114, 101>>,
     <<60, 69, 114, 114, 111, 114, 62>>,
     <<116, 105, 109, 101, 100, 32, 111, 117, 116>>}

XmlParseErrors == {[type |-> "XmlParseError", message |-> m] : m \in Messages}

\* serde_json::error::Error, with the text its Display gives
JsonErrors == {[type |-> "serde_json::Error", display |-> m] : m \in Messages}

CredentialsErrors == {[type |-> "CredentialsError", message |-> m] : m \in Messages}

HttpDispatchErrors == {[type |-> "HttpDispatchError", message |-> m] : m \in Messages}

SignAndDispatchErrors ==
    {[type |-> "SignAndDispatchError", variant |-> "Credentials", inner |-> e] :
        e \in CredentialsErrors}
      \cup {[type |-> "SignAndDispatchError", variant |-> "Dispatch", inner |-> e] :
                e \in HttpDispatchErrors}

StdIoErrors ==
    {[type |-> "io::Error", kind |-> k, message |-> m] :
        k \in {"TimedOut", "BrokenPipe"}, m \in Messages}

SourceErrors ==
    XmlParseErrors \cup JsonErrors \cup CredentialsErrors \cup HttpDispatchErrors
      \cup SignAndDispatchErrors \cup StdIoErrors

RusotoError(variant, payload) == [variant |-> variant, payload |-> payload]

\* impl From<io::Error> for HttpDispatchError
HttpDispatchError_from_io(e) == [type |-> "HttpDispatchError", message |-> e.message]

From_XmlParseError(e) == RusotoError("ParseError", e.message)

\* serde_json::error::Error: err.to_string()
From_serde_json_Error(e) == RusotoError("ParseError", e.display)

From_CredentialsError(e) == RusotoError("Credentials", e)

From_HttpDispatchError(e) == RusotoError("HttpDispatch", e)

From_SignAndDispatchError_dispatchAsParse(e) ==
    IF e.variant = "Credentials" THEN From_CredentialsError(e.inner)
    ELSE RusotoError("ParseError", e.inner.message)

From_SignAndDispatchError(e) ==
    CASE e.variant = "Credentials" -> From_CredentialsError(e.inner)
      [] e.variant = "Dispatch" -> From_HttpDispatchError(e.inner)

From_io_Error(e) == RusotoError("HttpDispatch", HttpDispatchError_from_io(e))

\* the impl the compiler selects for the type of the error
RusotoError_from(e) ==
    CASE e.type = "XmlParseError" -> From_XmlParseError(e)
      [] e.type = "serde_json::Error" -> From_serde_json_Error(e)
      [] e.type = "CredentialsError" -> From_CredentialsError(e)
      [] e.type = "HttpDispatchError" -> From_HttpDispatchError(e)
      [] e.type = "SignAndDispatchError" -> From_SignAndDispatchError(e)
      [] e.type = "io::Error" -> From_io_Error(e)

InitError ==
    /\ err \in {Some(e) : e \in SourceErrors}
    /\ converted = None
    /\ NoCall /\ NoBuilder /\ NoPure

Convert ==
    /\ converted = None
    /\ converted' = Some(RusotoError_from(err[1]))
    /\ UNCHANGED <<callVars, builderVars, valid, base_hostname, addressed, err>>

NextError == Convert

SpecError == InitError /\ [][NextError]_vars

\* C8: every conversion into RusotoError lands in the stated variant with the
\* original cause: XML and JSON decode failures in ParseError with the decoder's
\* message, CredentialsError in Credentials, HttpDispatchError and io::Error in
\* HttpDispatch, SignAndDispatchError in Credentials or HttpDispatch according
\* to its case with the inner error unchanged; none produces Service,
\* Validation, Unknown or Blocking.
C8_Conversions ==
    converted # None =>
        LET e == err[1]
            c == converted[1]
        IN  /\ e.type = "XmlParseError" => c = [variant |-> "ParseError", payload |-> e.message]
            /\ e.type = "serde_json::Error" =>
                    c = [variant |-> "ParseError", payload |-> e.display]
            /\ e.type = "CredentialsError" => c = [variant |-> "Credentials", payload |-> e]
            /\ e.type = "HttpDispatchError" => c = [variant |-> "HttpDispatch", payload |-> e]
            /\ e.type = "io::Error" =>
                    (c.variant = "HttpDispatch" /\ c.payload.type = "HttpDispatchError")
            /\ (e.type = "SignAndDispatchError" /\ e.variant = "Credentials") =>
                    c = [variant |-> "Credentials", payload |-> e.inner]
            /\ (e.type = "SignAndDispatchError" /\ e.variant = "Dispatch") =>
                    c = [variant |-> "HttpDispatch", payload |-> e.inner]
            /\ c.variant \notin {"Service", "Validation", "Unknown", "Blocking"}
            /\ c.variant \in {"ParseError", "Credentials", "HttpDispatch"}

C8_Witness ==
    /\ converted # None /\ err[1].type = "SignAndDispatchError"
    /\ err[1].variant = "Dispatch" /\ converted[1].variant = "HttpDispatch"

====
